---------------------------- MODULE Spec2Model ----------------------------
(***************************************************************************)
(* A model of the clinical-trial analytics pipeline (src/analytics.py) and *)
(* of the upload endpoint of its REST boundary (src/api.py).               *)
(*                                                                         *)
(* Representation.                                                         *)
(*  - A string is a sequence of one-character strings, so that lower(),    *)
(*    strip() and the numeric and date parsers are computed character by   *)
(*    character.                                                           *)
(*  - A number is a record [nan, v]: NaN, or the value v counted in TENTHS *)
(*    (age 30.5 is v = 305, the rate 66.7 is v = 667).  Inputs carry at    *)
(*    most one fractional digit.                                           *)
(*  - A call's outcome is a record [ok, err, val]: a returned value, or    *)
(*    the exception that propagated out of it.                             *)
(***************************************************************************)
EXTENDS Integers, Sequences, FiniteSets, TLC

VARIABLES
    source,   \* the data source at the default path "data/clinical_trials.csv"
    build_observed, \* whether the installed pandas groups by observed categories only
    call,     \* the function of analytics.py the caller called last ("none": none yet)
    ret,      \* the outcome of that call
    ran,      \* the functions entered during that call, in order
    fs,       \* the upload folder: temp path -> the bytes stored there
    req,      \* the upload requests in flight
    table,    \* the table object a dashboard session got from load_data
    results   \* what the calls of a session returned, by the name of the call

vars == <<source, build_observed, call, ret, ran, fs, req, table, results>>

-----------------------------------------------------------------------------
(* Characters and strings                                                  *)

Digits == <<"0", "1", "2", "3", "4", "5", "6", "7", "8", "9">>

UpperCase ==
    <<"A", "B", "C", "D", "E", "F", "G", "H", "I", "J", "K", "L", "M",
      "N", "O", "P", "Q", "R", "S", "T", "U", "V", "W", "X", "Y", "Z">>

LowerCase ==
    <<"a", "b", "c", "d", "e", "f", "g", "h", "i", "j", "k", "l", "m",
      "n", "o", "p", "q", "r", "s", "t", "u", "v", "w", "x", "y", "z">>

\* The collating order of the characters the model uses (their code points).
CodeOrder ==
    <<" ", "-", ".", "/">> \o Digits \o UpperCase \o <<"_">> \o LowerCase

IndexIn(c, seq) == CHOOSE i \in 1..Len(seq) : seq[i] = c
Occurs(c, seq) == \E i \in 1..Len(seq) : seq[i] = c

IsDigit(c) == Occurs(c, Digits)
DigitVal(c) == IndexIn(c, Digits) - 1
IsSpace(c) == c \in {" ", "\t", "\n", "\r"}
AllDigits(s) == \A i \in 1..Len(s) : IsDigit(s[i])

SetMin(S) == CHOOSE x \in S : \A y \in S : x <= y
SetMax(S) == CHOOSE x \in S : \A y \in S : y <= x

\* str.lower()
ToLowerChar(c) ==
    IF Occurs(c, UpperCase) THEN LowerCase[IndexIn(c, UpperCase)] ELSE c
lower(s) == [i \in 1..Len(s) |-> ToLowerChar(s[i])]

\* str.strip(): leading and trailing whitespace removed
strip(s) ==
    LET keep == {i \in 1..Len(s) : ~IsSpace(s[i])}
    IN  IF keep = {} THEN <<>> ELSE SubSeq(s, SetMin(keep), SetMax(keep))

\* The value of a string of digits.
RECURSIVE DigitsVal(_)
DigitsVal(s) ==
    IF s = <<>> THEN 0
    ELSE 10 * DigitsVal(SubSeq(s, 1, Len(s) - 1)) + DigitVal(s[Len(s)])

\* str(int) of a natural number
RECURSIVE NatToStr(_)
NatToStr(n) ==
    IF n < 10 THEN <<Digits[n + 1]>>
    ELSE NatToStr(n \div 10) \o <<Digits[(n % 10) + 1]>>

\* s < t in the order Python and pandas sort strings in
RECURSIVE StrLess(_, _)
StrLess(s, t) ==
    IF t = <<>> THEN FALSE
    ELSE IF s = <<>> THEN TRUE
    ELSE IF s[1] = t[1] THEN StrLess(Tail(s), Tail(t))
    ELSE IndexIn(s[1], CodeOrder) < IndexIn(t[1], CodeOrder)

-----------------------------------------------------------------------------
(* Numbers                                                                 *)

NaN == [nan |-> TRUE, v |-> 0]
Num(x) == [nan |-> FALSE, v |-> x]

\* The text of a decimal number: optional sign, digits, optional fraction.
IsNumberText(t) ==
    LET body == IF t # <<>> /\ t[1] \in {"-", "+"} THEN Tail(t) ELSE t
        dots == {i \in 1..Len(body) : body[i] = "."}
    IN  /\ body # <<>>
        /\ Cardinality(dots) <= 1
        /\ \A i \in 1..Len(body) : IsDigit(body[i]) \/ body[i] = "."
        /\ \E i \in 1..Len(body) : IsDigit(body[i])

\* The value, in tenths, of a text IsNumberText accepts.
NumberValue(t) ==
    LET neg  == t[1] = "-"
        body == IF t[1] \in {"-", "+"} THEN Tail(t) ELSE t
        dots == {i \in 1..Len(body) : body[i] = "."}
        dot  == IF dots = {} THEN Len(body) + 1 ELSE SetMin(dots)
        int  == DigitsVal(SubSeq(body, 1, dot - 1))
        frac == IF dot < Len(body) THEN DigitVal(body[dot + 1]) ELSE 0
        mag  == 10 * int + frac
    IN  IF neg THEN 0 - mag ELSE mag


-----------------------------------------------------------------------------
(* Outcomes of a call                                                      *)

Ok(v) == [ok |-> TRUE, err |-> "", val |-> v]
Raise(e) == [ok |-> FALSE, err |-> e, val |-> <<>>]

-----------------------------------------------------------------------------
(* pd.read_csv: the reader's missing values and column types               *)

\* The header row of the CSV (src/generate_data.py writes it).
Columns ==
    <<"patient_id", "trial_site", "enrollment_date",
      "age", "adverse_event", "completed_trial">>
ColumnSet == {Columns[i] : i \in 1..Len(Columns)}

\* The texts pd.read_csv reads as NaN by default.
NA_VALUES ==
    { <<>>,
      <<"N", "U", "L", "L">>, <<"n", "u", "l", "l">>,
      <<"N", "A">>, <<"N", "a", "N">>, <<"n", "a", "n">>,
      <<"N", "/", "A">>, <<"n", "/", "a">>, <<"N", "o", "n", "e">>,
      <<"-", "N", "a", "N">>, <<"-", "n", "a", "n">>,
      <<"<", "N", "A", ">">>, <<"#", "N", "A">>, <<"#", "N", "/", "A">> }

\* The texts the reader's boolean column type accepts.
BoolTexts ==
    { <<"T", "r", "u", "e">>, <<"T", "R", "U", "E">>, <<"t", "r", "u", "e">>,
      <<"F", "a", "l", "s", "e">>, <<"F", "A", "L", "S", "E">>,
      <<"f", "a", "l", "s", "e">> }

IsIntText(t) == IsNumberText(t) /\ ~Occurs(".", t)

\* The dtype the reader infers for a column from its texts: int64, else
\* float64 (also an integer column with a missing value), else bool, else
\* object (the texts stay strings).
InferDtype(texts) ==
    LET all  == 1..Len(texts)
        vals == {i \in all : texts[i] \notin NA_VALUES}
    IN  IF vals = {} THEN (IF all = {} THEN "object" ELSE "float64")
        ELSE IF \A i \in vals : IsIntText(strip(texts[i]))
             THEN (IF vals = all THEN "int64" ELSE "float64")
        ELSE IF \A i \in vals : IsNumberText(strip(texts[i])) THEN "float64"
        ELSE IF \A i \in vals : texts[i] \in BoolTexts THEN "bool"
        ELSE "object"

NACell == [na |-> TRUE, s |-> <<>>]
Cell(t) == [na |-> FALSE, s |-> t]

\* df = pd.read_csv(file_path)
read_csv(src) ==
    IF src.kind = "missing" THEN Raise("FileNotFoundError")
    ELSE IF src.kind = "corrupt" THEN Raise("ParserError")
    ELSE
      LET n == Len(src.rows)
      IN  Ok([cols  |-> ColumnSet,
              dtype |-> [c \in ColumnSet |->
                            InferDtype([i \in 1..n |-> src.rows[i][c]])],
              rows  |-> [i \in 1..n |->
                          [idx  |-> i - 1,
                           cell |-> [c \in ColumnSet |->
                                      IF src.rows[i][c] \in NA_VALUES
                                      THEN NACell
                                      ELSE Cell(src.rows[i][c])]]]])

\* str(x) of a number held in tenths, as an int64 and as a float64 cell
IntRepr(v) ==
    IF v < 0 THEN <<"-">> \o NatToStr((0 - v) \div 10) ELSE NatToStr(v \div 10)
FloatRepr(v) ==
    LET m == IF v < 0 THEN 0 - v ELSE v
        t == NatToStr(m \div 10) \o <<".">> \o NatToStr(m % 10)
    IN  IF v < 0 THEN <<"-">> \o t ELSE t

\* Series.astype(str) of one present cell of a column of the given dtype
astype_str(dtype, s) ==
    IF dtype = "int64" THEN IntRepr(NumberValue(strip(s)))
    ELSE IF dtype = "float64" THEN FloatRepr(NumberValue(strip(s)))
    ELSE IF dtype = "bool"
         THEN (IF lower(s) = <<"t", "r", "u", "e">>
               THEN <<"T", "r", "u", "e">> ELSE <<"F", "a", "l", "s", "e">>)
    ELSE s

-----------------------------------------------------------------------------
(* load_data                                                               *)

\* The texts load_data replaces by pd.NA.
NullMarkers ==
    { <<"N", "u", "l", "l">>, <<"n", "u", "l", "l">>, <<"N", "U", "L", "L">>,
      <<>>, <<" ">> }

\* df.replace(['Null', 'null', 'NULL', '', ' '], pd.NA)
replace_null(df) ==
    [df EXCEPT !.rows =
        [i \in 1..Len(df.rows) |->
            [df.rows[i] EXCEPT !.cell =
                [c \in df.cols |->
                    IF ~df.rows[i].cell[c].na /\ df.rows[i].cell[c].s \in NullMarkers
                    THEN NACell ELSE df.rows[i].cell[c]]]]]

\* df.dropna(axis=1, how='all'): a column is dropped when no row has a value
\* in it (every column of a table without rows).
dropna_columns(df) ==
    LET kept == {c \in df.cols : \E i \in 1..Len(df.rows) : ~df.rows[i].cell[c].na}
    IN  [cols  |-> kept,
         dtype |-> [c \in kept |-> df.dtype[c]],
         rows  |-> [i \in 1..Len(df.rows) |->
                      [df.rows[i] EXCEPT !.cell = [c \in kept |-> df.rows[i].cell[c]]]]]

\* df.dropna(axis=0, how='any')
dropna_rows(df) ==
    LET Complete(r) == \A c \in df.cols : ~r.cell[c].na
    IN  [df EXCEPT !.rows = SelectSeq(df.rows, Complete)]

\* clean with the two drops exchanged: rows first, then columns.
clean_rows_first(df) == dropna_columns(dropna_rows(replace_null(df)))

\* The cleaning steps in the order load_data runs them.
clean(df) == dropna_rows(dropna_columns(replace_null(df)))

NaT == [nat |-> TRUE, year |-> 0, month |-> 0, day |-> 0]

DaysIn(y, m) ==
    IF m \in {4, 6, 9, 11} THEN 30
    ELSE IF m = 2
         THEN (IF y % 4 = 0 /\ (y % 100 # 0 \/ y % 400 = 0) THEN 29 ELSE 28)
    ELSE 31

\* pd.to_datetime(text, errors='coerce') for the dates the sources write,
\* YYYY-MM-DD: a calendar date, or NaT.
to_datetime(s) ==
    IF /\ Len(s) = 10
       /\ s[5] = "-" /\ s[8] = "-"
       /\ AllDigits(SubSeq(s, 1, 4))
       /\ AllDigits(SubSeq(s, 6, 7))
       /\ AllDigits(SubSeq(s, 9, 10))
    THEN LET y == DigitsVal(SubSeq(s, 1, 4))
             m == DigitsVal(SubSeq(s, 6, 7))
             d == DigitsVal(SubSeq(s, 9, 10))
         IN  IF m \in 1..12 /\ d \in 1..DaysIn(y, m)
             THEN [nat |-> FALSE, year |-> y, month |-> m, day |-> d]
             ELSE NaT
    ELSE NaT

\* pd.to_numeric(text, errors='coerce')
to_numeric(s) ==
    IF IsNumberText(strip(s)) THEN Num(NumberValue(strip(s))) ELSE NaN

\* .astype(str).str.lower().str.strip() followed by .isin(['true', '1', 'yes'])
TrueTexts == { <<"t", "r", "u", "e">>, <<"1">>, <<"y", "e", "s">> }
to_bool(dtype, s) == strip(lower(astype_str(dtype, s))) \in TrueTexts

\* pd.cut(age, bins=[0, 30, 50, 70, 100], labels=[...]): bins open on the
\* left and closed on the right; an age in no bin gets no label.
bins == <<0, 30, 50, 70, 100>>
labels == <<"18-30", "31-50", "51-70", "71-80">>
NoLabel == "NaN"
\* InBin with the bins closed on the left and open on the right (right=False).
InBin_left(age, i) == 10 * bins[i] <= age.v /\ age.v < 10 * bins[i + 1]

InBin(age, i) == 10 * bins[i] < age.v /\ age.v <= 10 * bins[i + 1]
cut(age) ==
    IF ~age.nan /\ \E i \in 1..Len(labels) : InBin(age, i)
    THEN labels[CHOOSE i \in 1..Len(labels) : InBin(age, i)]
    ELSE NoLabel

\* The text of a column of a row, when the column survived cleaning.
TextOf(df, r, c) == IF c \in df.cols THEN r.cell[c].s ELSE <<>>

\* Lines 65-77: the conversions of the columns, row by row.
convert(df) ==
    [i \in 1..Len(df.rows) |->
        LET r == df.rows[i]
        IN  [idx             |-> r.idx,
             patient_id      |-> TextOf(df, r, "patient_id"),
             trial_site      |-> TextOf(df, r, "trial_site"),
             enrollment_date |-> to_datetime(r.cell["enrollment_date"].s),
             age             |-> to_numeric(r.cell["age"].s),
             adverse_event   |-> to_bool(df.dtype["adverse_event"],
                                         r.cell["adverse_event"].s),
             completed_trial |-> to_bool(df.dtype["completed_trial"],
                                         r.cell["completed_trial"].s)]]

\* dropna_subset looking at the age only: dropna(subset=['age']).
dropna_subset_age_only(rows) ==
    LET Converted(r) == ~r.age.nan
    IN  SelectSeq(rows, Converted)

\* df.dropna(subset=['enrollment_date', 'age'])
dropna_subset(rows) ==
    LET Converted(r) == ~r.enrollment_date.nat /\ ~r.age.nan
    IN  SelectSeq(rows, Converted)

\* Lines 82-87: the derived columns age_group and enrollment_month.
derive(rows) ==
    [i \in 1..Len(rows) |->
        [idx              |-> rows[i].idx,
         patient_id       |-> rows[i].patient_id,
         trial_site       |-> rows[i].trial_site,
         enrollment_date  |-> rows[i].enrollment_date,
         age              |-> rows[i].age,
         adverse_event    |-> rows[i].adverse_event,
         completed_trial  |-> rows[i].completed_trial,
         age_group        |-> cut(rows[i].age),
         enrollment_month |-> rows[i].enrollment_date.month]]

\* The first column among those load_data indexes that cleaning dropped.
Converted4 == <<"enrollment_date", "age", "adverse_event", "completed_trial">>
MissingKey(cols, wanted) ==
    LET gone == {i \in 1..Len(wanted) : wanted[i] \notin cols}
    IN  IF gone = {} THEN "" ELSE wanted[SetMin(gone)]

KeyError(c) == Raise("KeyError:" \o c)

\* load_data(file_path): the cleaned table, or the exception that the
\* except clause prints and re-raises as it is.
load_data(src) ==
    LET r == read_csv(src)
    IN  IF ~r.ok THEN r
        ELSE LET df  == clean(r.val)
                 key == MissingKey(df.cols, Converted4)
             IN  IF key # "" THEN KeyError(key)
                 ELSE Ok([cols |-> df.cols \cup {"age_group", "enrollment_month"},
                          rows |-> derive(dropna_subset(convert(df)))])

-----------------------------------------------------------------------------
(* Aggregators                                                             *)

Indices(seq) == 1..Len(seq)

\* a / b rounded to the nearest integer, a tie to the even one (np.round)
RoundDiv(a, b) ==
    LET q == a \div b
        r == a % b
    IN  IF 2 * r < b THEN q
        ELSE IF 2 * r > b THEN q + 1
        ELSE IF q % 2 = 0 THEN q ELSE q + 1

RECURSIVE SumOver(_, _)
SumOver(seq, f) ==
    IF seq = <<>> THEN 0 ELSE seq[1][f].v + SumOver(Tail(seq), f)

NTrue(rows, f) == Cardinality({i \in Indices(rows) : rows[i][f]})

\* pct_round1 with the percentage scaled twice (mean * 100 * 100).
pct_round1_twice(rows, f) ==
    IF rows = <<>> THEN NaN ELSE Num(RoundDiv(100000 * NTrue(rows, f), Len(rows)))

\* pct_round1 cutting the digits after the first decimal instead of rounding.
pct_round1_floor(rows, f) ==
    IF rows = <<>> THEN NaN ELSE Num((1000 * NTrue(rows, f)) \div Len(rows))

\* pct_round1 reporting the rate of an empty set as 0.0.
pct_round1_zero(rows, f) ==
    IF rows = <<>> THEN Num(0) ELSE Num(RoundDiv(1000 * NTrue(rows, f), Len(rows)))

\* round(rows[f].mean() * 100, 1), in tenths of a percent; the mean of no
\* value is NaN and stays NaN through the product and the rounding.
pct_round1(rows, f) ==
    IF rows = <<>> THEN NaN ELSE Num(RoundDiv(1000 * NTrue(rows, f), Len(rows)))

\* round(rows['age'].mean(), 1), in tenths of a year
mean_age_round1(rows) ==
    IF rows = <<>> THEN NaN ELSE Num(RoundDiv(SumOver(rows, "age"), Len(rows)))

\* rows[f].mean().round(3) * 100, in tenths of a percent
pct_round3(rows, f) ==
    IF rows = <<>> THEN NaN ELSE Num(RoundDiv(1000 * NTrue(rows, f), Len(rows)))

\* rows['age'].mean().round(3), in thousandths of a year
mean_age_round3(rows) ==
    IF rows = <<>> THEN NaN
    ELSE Num(RoundDiv(100 * SumOver(rows, "age"), Len(rows)))

\* The distinct values of a column and the rows of one group.
Values(rows, f) == {rows[i][f] : i \in Indices(rows)}
Group(rows, f, k) == LET Member(r) == r[f] = k IN SelectSeq(rows, Member)

\* groupby sorts its keys: the site labels as strings, the months as numbers.
RECURSIVE SortStrings(_)
SortStrings(S) ==
    IF S = {} THEN <<>>
    ELSE LET m == CHOOSE x \in S : \A y \in S \ {x} : StrLess(x, y)
         IN  <<m>> \o SortStrings(S \ {m})

RECURSIVE SortNumbers(_)
SortNumbers(S) ==
    IF S = {} THEN <<>>
    ELSE <<SetMin(S)>> \o SortNumbers(S \ {SetMin(S)})

\* sort_values('completion_rate', ascending=False): highest rate first, rows
\* of equal rate in the order they had.
RECURSIVE sort_values_desc(_)
sort_values_desc(seq) ==
    IF seq = <<>> THEN <<>>
    ELSE LET top == {i \in Indices(seq) :
                        \A j \in Indices(seq) :
                            seq[j].completion_rate.v <= seq[i].completion_rate.v}
             i   == SetMin(top)
         IN  <<seq[i]>> \o
             sort_values_desc(SubSeq(seq, 1, i - 1) \o SubSeq(seq, i + 1, Len(seq)))

\* calculate_summary_statistics(df)
calculate_summary_statistics(df) ==
    IF "trial_site" \notin df.cols THEN KeyError("trial_site")
    ELSE IF "patient_id" \notin df.cols THEN KeyError("patient_id")
    ELSE
      LET rows  == df.rows
          sites == SortStrings(Values(rows, "trial_site"))
          ae    == LET With(r) == r.adverse_event = TRUE IN SelectSeq(rows, With)
          no_ae == LET Without(r) == r.adverse_event = FALSE IN SelectSeq(rows, Without)
      IN  Ok([total_patients    |-> Len(rows),
              patients_per_site |->
                  [k \in Indices(sites) |->
                      [trial_site    |-> sites[k],
                       patient_count |-> Len(Group(rows, "trial_site", sites[k]))]],
              average_age       |-> mean_age_round1(rows),
              completion_rate   |-> pct_round1(rows, "completed_trial"),
              adverse_event_rate |-> pct_round1(rows, "adverse_event"),
              completion_rate_with_ae    |-> pct_round1(ae, "completed_trial"),
              completion_rate_without_ae |-> pct_round1(no_ae, "completed_trial")])

\* site_performance_analysis(df): one entry per site, in the order of the
\* returned dict.
site_performance_analysis(df) ==
    IF "trial_site" \notin df.cols THEN KeyError("trial_site")
    ELSE IF "patient_id" \notin df.cols THEN KeyError("patient_id")
    ELSE
      LET sites == SortStrings(Values(df.rows, "trial_site"))
          stats == [k \in Indices(sites) |->
                      LET g == Group(df.rows, "trial_site", sites[k])
                      IN  [site            |-> sites[k],
                           total_patients  |-> Len(g),
                           completed_count |-> NTrue(g, "completed_trial"),
                           completion_rate |-> pct_round3(g, "completed_trial"),
                           ae_count        |-> NTrue(g, "adverse_event"),
                           ae_rate         |-> pct_round3(g, "adverse_event"),
                           avg_age         |-> mean_age_round3(g)]]
      IN  Ok(sort_values_desc(stats))

\* age_group_analysis(df): one entry per age group, in the order of the
\* labels. The rows without a label belong to no group. With observed =
\* FALSE (the default of groupby before pandas 3) a label without rows is
\* reported with count 0 and NaN statistics; with observed = TRUE it is left
\* out.
age_group_analysis(df, observed) ==
    IF "patient_id" \notin df.cols THEN KeyError("patient_id")
    ELSE
      LET shown == SelectSeq(labels,
                       LAMBDA l : ~observed \/ Group(df.rows, "age_group", l) # <<>>)
      IN  Ok([k \in Indices(shown) |->
                 LET g    == Group(df.rows, "age_group", shown[k])
                     ages == {g[i].age.v : i \in Indices(g)}
                 IN  [age_group       |-> shown[k],
                      count           |-> Len(g),
                      completion_rate |-> pct_round3(g, "completed_trial"),
                      ae_rate         |-> pct_round3(g, "adverse_event"),
                      min_age         |-> IF g = <<>> THEN NaN ELSE Num(SetMin(ages)),
                      max_age         |-> IF g = <<>> THEN NaN ELSE Num(SetMax(ages)),
                      avg_age         |-> mean_age_round3(g)]])

\* temporal_analysis(df): one entry per enrollment month present, ascending.
temporal_analysis(df) ==
    IF "patient_id" \notin df.cols THEN KeyError("patient_id")
    ELSE
      LET months == SortNumbers(Values(df.rows, "enrollment_month"))
      IN  Ok([k \in Indices(months) |->
                 LET g == Group(df.rows, "enrollment_month", months[k])
                 IN  [month           |-> months[k],
                      enrollments     |-> Len(g),
                      completion_rate |-> pct_round3(g, "completed_trial"),
                      ae_rate         |-> pct_round3(g, "adverse_event")]])

\* The columns correlation_analysis correlates: the four numeric ones and
\* one indicator per site (pd.get_dummies orders them by site label).
numeric_cols(rows) ==
    LET sites == SortStrings(Values(rows, "trial_site"))
    IN  << [name |-> "age", site |-> <<>>],
           [name |-> "completed_trial", site |-> <<>>],
           [name |-> "adverse_event", site |-> <<>>],
           [name |-> "enrollment_month", site |-> <<>>] >>
        \o [k \in Indices(sites) |-> [name |-> "site", site |-> sites[k]]]

\* The number a row holds in a column (booleans as 0 and 1, age in tenths).
NumericValue(r, col) ==
    IF col.name = "age" THEN r.age.v
    ELSE IF col.name = "completed_trial" THEN (IF r.completed_trial THEN 1 ELSE 0)
    ELSE IF col.name = "adverse_event" THEN (IF r.adverse_event THEN 1 ELSE 0)
    ELSE IF col.name = "enrollment_month" THEN r.enrollment_month
    ELSE (IF r.trial_site = col.site THEN 1 ELSE 0)

RECURSIVE SumCol(_, _)
SumCol(rows, a) ==
    IF rows = <<>> THEN 0 ELSE NumericValue(rows[1], a) + SumCol(Tail(rows), a)

RECURSIVE SumProd(_, _, _)
SumProd(rows, a, b) ==
    IF rows = <<>> THEN 0
    ELSE NumericValue(rows[1], a) * NumericValue(rows[1], b)
         + SumProd(Tail(rows), a, b)

\* Pearson's r of two columns, exactly: NaN when either column has no
\* variance (or there are no rows), else r = cov / sqrt(vara * varb), held
\* as the covariance and the two variances, each scaled by n * n.
pearson(rows, a, b) ==
    LET n    == Len(rows)
        cov  == n * SumProd(rows, a, b) - SumCol(rows, a) * SumCol(rows, b)
        vara == n * SumProd(rows, a, a) - SumCol(rows, a) * SumCol(rows, a)
        varb == n * SumProd(rows, b, b) - SumCol(rows, b) * SumCol(rows, b)
    IN  IF vara = 0 \/ varb = 0
        THEN [nan |-> TRUE, cov |-> 0, vara |-> 0, varb |-> 0]
        ELSE [nan |-> FALSE, cov |-> cov, vara |-> vara, varb |-> varb]

\* correlation_analysis(df): works on a copy of df
correlation_analysis(df) ==
    IF "trial_site" \notin df.cols THEN KeyError("trial_site")
    ELSE LET cs == numeric_cols(df.rows)
         IN  Ok([columns |-> cs,
                 matrix  |-> [i \in Indices(cs) |->
                                [j \in Indices(cs) |-> pearson(df.rows, cs[i], cs[j])]]])

-----------------------------------------------------------------------------
(* Insight deriver and orchestrator                                        *)

recommendations ==
    << "Investigate why certain sites have lower completion rates",
       "Focus support on underperforming age groups",
       "Monitor temporal trends for seasonal patterns",
       "Analyze correlations to identify key success factors" >>

\* Series.idxmax() / idxmin() of the completion rates: the position of the
\* first entry holding the largest (smallest) rate, NaN entries skipped;
\* 0 when every entry is NaN.
idxmax(seq) ==
    LET valid == {i \in Indices(seq) : ~seq[i].completion_rate.nan}
        top   == {i \in valid : \A j \in valid :
                     seq[j].completion_rate.v <= seq[i].completion_rate.v}
    IN  IF valid = {} THEN 0 ELSE SetMin(top)
idxmin(seq) ==
    LET valid == {i \in Indices(seq) : ~seq[i].completion_rate.nan}
        low   == {i \in valid : \A j \in valid :
                     seq[i].completion_rate.v <= seq[j].completion_rate.v}
    IN  IF valid = {} THEN 0 ELSE SetMin(low)

\* get_key_insights(df)
get_key_insights(df, observed) ==
    LET sp == site_performance_analysis(df)
        aa == age_group_analysis(df, observed)
    IN  IF ~sp.ok THEN sp
        ELSE IF ~aa.ok THEN aa
        ELSE IF sp.val = <<>> THEN Raise("IndexError")
        ELSE IF aa.val = <<>> THEN KeyError("completion_rate")
        ELSE IF idxmax(aa.val) = 0 THEN KeyError("nan")
        ELSE
          LET best_site  == sp.val[1]
              worst_site == sp.val[Len(sp.val)]
              best_age   == aa.val[idxmax(aa.val)]
              worst_age  == aa.val[idxmin(aa.val)]
          IN  Ok([best_site  |-> [name            |-> best_site.site,
                                  completion_rate |-> best_site.completion_rate,
                                  ae_rate         |-> best_site.ae_rate],
                  worst_site |-> [name            |-> worst_site.site,
                                  completion_rate |-> worst_site.completion_rate,
                                  ae_rate         |-> worst_site.ae_rate],
                  best_age_group  |-> [name            |-> best_age.age_group,
                                       completion_rate |-> best_age.completion_rate],
                  worst_age_group |-> [name            |-> worst_age.age_group,
                                       completion_rate |-> worst_age.completion_rate],
                  recommendations |-> recommendations])

\* The sections of the composite result, in the order get_all_analytics
\* evaluates them.
Sections ==
    << "summary_statistics", "site_performance", "age_group_analysis",
       "temporal_analysis", "correlation_analysis", "key_insights" >>

section(name, df, observed) ==
    IF name = "summary_statistics" THEN calculate_summary_statistics(df)
    ELSE IF name = "site_performance" THEN site_performance_analysis(df)
    ELSE IF name = "age_group_analysis" THEN age_group_analysis(df, observed)
    ELSE IF name = "temporal_analysis" THEN temporal_analysis(df)
    ELSE IF name = "correlation_analysis" THEN correlation_analysis(df)
    ELSE get_key_insights(df, observed)

\* Lines 284-288 of correlation_analysis: the booleans of corr_data become
\* integers (the month is assigned the value it has; the site indicators go
\* to a new table that pd.concat builds).
encode(df) ==
    [df EXCEPT !.rows =
        [i \in Indices(df.rows) |->
            [df.rows[i] EXCEPT !.completed_trial = IF @ THEN 1 ELSE 0,
                               !.adverse_event = IF @ THEN 1 ELSE 0]]]

\* df_after with the rows that have no age group dropped from the table in
\* place by age_group_analysis (dropna(subset=['age_group'], inplace=True)).
df_after_dropna(name, df) ==
    IF name \in {"age_group_analysis", "key_insights"}
    THEN LET Labelled(r) == r.age_group # NoLabel
         IN  [df EXCEPT !.rows = SelectSeq(df.rows, Labelled)]
    ELSE df

\* The table object passed as df, as the function leaves it. The only
\* assignments into a table are those of correlation_analysis, and they go
\* into corr_data, the copy line 281 makes; every other statement reads df
\* or builds a new object (groupby, agg, boolean indexing, DataFrame.from_dict).
df_after(name, df) ==
    IF name = "correlation_analysis"
    THEN LET objects == [df |-> df, corr_data |-> df]
             written == [objects EXCEPT !.corr_data = encode(@)]
         IN  written.df
    ELSE df

\* get_all_analytics catching the failure of load_data and going on with an
\* empty result instead of letting it propagate.
get_all_analytics_swallow(src, observed) ==
    LET loaded == load_data(src)
    IN  IF ~loaded.ok THEN [ret |-> Ok(<<>>), ran |-> <<"load_data">> \o Sections]
        ELSE [ret |-> section("summary_statistics", loaded.val, observed),
              ran |-> <<"load_data", "summary_statistics">>]

\* get_all_analytics leaving the order of the sites to an unordered
\* collection, whose order a later call of the same process sees reversed.
get_all_analytics_unordered(src, observed) ==
    LET loaded == load_data(src)
        sp     == site_performance_analysis(loaded.val)
        n      == Len(sp.val)
    IN  IF ~loaded.ok \/ ~sp.ok THEN [ret |-> loaded, ran |-> <<"load_data">>]
        ELSE [ret |-> Ok([site_performance |->
                            IF "composite" \in DOMAIN results
                            THEN [k \in 1..n |-> sp.val[n + 1 - k]]
                            ELSE sp.val]),
              ran |-> <<"load_data", "site_performance">>]

\* get_all_analytics(): [ret, ran], the outcome and the functions it
\* entered. load_data runs first; an exception of it, or of a section,
\* ends the call there and propagates.
get_all_analytics(src, observed) ==
    CHOOSE result \in {
        IF ~loaded.ok THEN [ret |-> loaded, ran |-> <<"load_data">>]
        ELSE
          LET dfs[k \in Indices(Sections)] ==
                  IF k = 1 THEN loaded.val ELSE df_after(Sections[k - 1], dfs[k - 1])
              outs   == [k \in Indices(Sections) |->
                            section(Sections[k], dfs[k], observed)]
              failed == {k \in Indices(Sections) : ~outs[k].ok}
              last   == IF failed = {} THEN Len(Sections) ELSE SetMin(failed)
          IN  [ret |-> IF failed = {}
                       THEN Ok([summary_statistics   |-> outs[1].val,
                                site_performance     |-> outs[2].val,
                                age_group_analysis   |-> outs[3].val,
                                temporal_analysis    |-> outs[4].val,
                                correlation_analysis |-> outs[5].val,
                                key_insights         |-> outs[6].val])
                       ELSE outs[SetMin(failed)],
               ran |-> <<"load_data">> \o SubSeq(Sections, 1, last)]
        : loaded \in {load_data(src)} } : TRUE

-----------------------------------------------------------------------------
(* Inputs                                                                  *)

\* The largest number of rows of a source with well-formed rows, and of a
\* source with rows that need cleaning.
MaxRows == 3
MaxRawRows == 2

Boston == <<"B", "o", "s", "t", "o", "n">>
Chicago == <<"C", "h", "i", "c", "a", "g", "o">>
Dallas == <<"D", "a", "l", "l", "a", "s">>
Jan15 == <<"2", "0", "2", "4", "-", "0", "1", "-", "1", "5">>
Feb03 == <<"2", "0", "2", "4", "-", "0", "2", "-", "0", "3">>
Jun30 == <<"2", "0", "2", "4", "-", "0", "6", "-", "3", "0">>
true == <<"t", "r", "u", "e">>
false == <<"f", "a", "l", "s", "e">>

RawRow(site, date, age, ae, done) ==
    [trial_site |-> site, enrollment_date |-> date, age |-> age,
     adverse_event |-> ae, completed_trial |-> done]

\* Rows as src/generate_data.py writes them, the three rows of the spec's
\* fixture first, then a row of an age outside every bin and a row whose
\* age is no number.
StatPool ==
    { RawRow(Boston, Jan15, <<"2", "5">>, false, true),
      RawRow(Boston, Feb03, <<"6", "5">>, true, false),
      RawRow(Chicago, Jan15, <<"4", "0">>, false, true),
      RawRow(Chicago, Jun30, <<"7", "2">>, true, true),
      RawRow(Dallas, Feb03, <<"3", "0">>, false, false),
      RawRow(Dallas, Jun30, <<"1", "5", "0">>, false, true),
      RawRow(Boston, Jun30, <<"a", "b", "c">>, true, true) }

\* One well-formed row, and that row with one cell changed.
BaseRow == RawRow(Boston, Jan15, <<"2", "5">>, true, false)

OddCells ==
    [trial_site      |-> { <<"N", "u", "l", "l">>, <<"N", "A">>, Chicago },
     enrollment_date |-> { <<"N", "U", "L", "L">>, <<"s", "o", "o", "n">>, Feb03 },
     age             |-> { <<"n", "u", "l", "l">>, <<"a", "b", "c">>,
                           <<"1", "5", "0">>, <<"0">> },
     adverse_event   |-> { <<>>, <<" ", "Y", "E", "S", " ">>, <<"1">>, <<"n", "o">> },
     completed_trial |-> { <<" ">>, <<"T", "R", "U", "E">>, <<"0">> }]

RawPool ==
    {BaseRow} \cup
    UNION { {[BaseRow EXCEPT ![c] = t] : t \in OddCells[c]} : c \in DOMAIN OddCells }

\* The patient_id the generator gives the i-th row; a source may also leave
\* every patient_id empty.
PatientId(i) == <<"P">> \o NatToStr(i)

WithIds(rows, blank) ==
    [i \in Indices(rows) |->
        [c \in ColumnSet |->
            IF c = "patient_id" THEN (IF blank THEN <<>> ELSE PatientId(i))
            ELSE rows[i][c]]]

Tables(pool, n) == UNION {[1..k -> pool] : k \in 0..n}

Csv(rows) == [kind |-> "csv", rows |-> rows]
Unreadable == {[kind |-> "missing", rows |-> <<>>], [kind |-> "corrupt", rows |-> <<>>]}

StatSources == {Csv(WithIds(t, FALSE)) : t \in Tables(StatPool, MaxRows)} \cup Unreadable
RawSources ==
    {Csv(WithIds(t, b)) : t \in Tables(RawPool, MaxRawRows), b \in BOOLEAN}
    \cup Unreadable

-----------------------------------------------------------------------------
(* The pipeline as a state machine                                         *)
(*                                                                         *)
(* No state outlives a call.  A caller either calls get_all_analytics, or  *)
(* calls load_data and hands the table it returned to one of the           *)
(* aggregators or to the insight deriver (as src/st_dashboard.py and       *)
(* src/api.py do).                                                         *)

\* The session holds no table before its call of load_data.
NotLoaded == Raise("not loaded")

InitCommon ==
    /\ build_observed \in BOOLEAN
    /\ call = "none"
    /\ ret = Ok(<<>>)
    /\ ran = <<>>
    /\ fs = <<>>
    /\ req = <<>>
    /\ table = NotLoaded
    /\ results = <<>>

Init == source \in StatSources /\ InitCommon
InitClean == source \in RawSources /\ InitCommon

\* df = load_data()
LoadData ==
    /\ call = "none"
    /\ call' = "load_data"
    /\ ret' = load_data(source)
    /\ ran' = <<"load_data">>
    /\ UNCHANGED <<source, build_observed, fs, req, table, results>>

\* One aggregator, or the insight deriver, called on the table load_data
\* returned.
Run(name) ==
    /\ call = "load_data"
    /\ ret.ok
    /\ call' = name
    /\ ret' = section(name, ret.val, build_observed)
    /\ ran' = <<name>>
    /\ UNCHANGED <<source, build_observed, fs, req, table, results>>

CalculateSummaryStatistics == Run("summary_statistics")
SitePerformanceAnalysis == Run("site_performance")
AgeGroupAnalysis == Run("age_group_analysis")
TemporalAnalysis == Run("temporal_analysis")
CorrelationAnalysis == Run("correlation_analysis")
GetKeyInsights == Run("key_insights")

\* get_all_analytics()
GetAllAnalytics ==
    /\ call = "none"
    /\ \E r \in {get_all_analytics(source, build_observed)} :
          /\ call' = "get_all_analytics"
          /\ ret' = r.ret
          /\ ran' = r.ran
    /\ UNCHANGED <<source, build_observed, fs, req, table, results>>

Next ==
    \/ LoadData
    \/ CalculateSummaryStatistics
    \/ SitePerformanceAnalysis
    \/ AgeGroupAnalysis
    \/ TemporalAnalysis
    \/ CorrelationAnalysis
    \/ GetKeyInsights
    \/ GetAllAnalytics

Spec == Init /\ [][Next]_vars
SpecClean == InitClean /\ [][Next]_vars

\* Sources whose ages lie on, beside and between the edges of the bins.
EdgeAges ==
    { <<"0", ".", "5">>, <<"1", "8">>, <<"3", "0">>, <<"3", "0", ".", "5">>,
      <<"3", "1">>, <<"5", "0">>, <<"5", "0", ".", "1">>, <<"7", "0">>,
      <<"7", "0", ".", "5">>, <<"1", "0", "0">> }
BinSources ==
    {Csv(WithIds(t, FALSE)) :
        t \in Tables({[BaseRow EXCEPT !.age = a] : a \in EdgeAges}, MaxRawRows)}
InitBins == source \in BinSources /\ InitCommon
SpecBins == InitBins /\ [][Next]_vars

-----------------------------------------------------------------------------
(* A session of calls in one process                                       *)
(*                                                                         *)
(* src/st_dashboard.py loads the table once and hands the same object to   *)
(* every aggregator and to the insight deriver; a caller of the            *)
(* orchestrator may call it again on the unchanged source.  The session    *)
(* runs the functions in any order and keeps what each returned.           *)

\* The largest number of rows of the source of a session.
MaxSessionRows == 2

SessionPool ==
    { RawRow(Boston, Jan15, <<"2", "5">>, false, true),
      RawRow(Chicago, Feb03, <<"4", "0">>, true, true),
      RawRow(Dallas, Jun30, <<"1", "5", "0">>, false, false) }

SessionSources ==
    {Csv(WithIds(t, FALSE)) : t \in Tables(SessionPool, MaxSessionRows)} \cup Unreadable

InitSession == source \in SessionSources /\ InitCommon

\* df = load_data()
DashboardLoad ==
    /\ table = NotLoaded
    /\ table' = load_data(source)
    /\ UNCHANGED <<source, build_observed, call, ret, ran, fs, req, results>>

\* The results of the session with the value v kept under the name.
Keep(name, v) ==
    [x \in DOMAIN results \cup {name} |-> IF x = name THEN v ELSE results[x]]

\* One aggregator, or the insight deriver, called on the table the session
\* holds; the table is afterwards what the function left of it.
DashboardRun ==
    \E name \in {Sections[k] : k \in Indices(Sections)} \ DOMAIN results :
        /\ table.ok
        /\ \E v \in {section(name, table.val, build_observed)} :
              results' = Keep(name, v)
        /\ table' = [table EXCEPT !.val = df_after(name, @)]
        /\ UNCHANGED <<source, build_observed, call, ret, ran, fs, req>>

\* get_all_analytics(), kept under the given name.
Composite(label) ==
    /\ label \notin DOMAIN results
    /\ \E r \in {get_all_analytics(source, build_observed)} :
          /\ results' = Keep(label, r.ret)
          /\ call' = "get_all_analytics"
          /\ ret' = r.ret
          /\ ran' = r.ran
    /\ UNCHANGED <<source, build_observed, fs, req, table>>

\* The first call of get_all_analytics() in the session, and a second one.
CallGetAllAnalytics == Composite("composite")
CallGetAllAnalyticsAgain ==
    "composite" \in DOMAIN results /\ Composite("composite_again")

NextSession ==
    \/ DashboardLoad
    \/ DashboardRun
    \/ CallGetAllAnalytics
    \/ CallGetAllAnalyticsAgain

SpecSession == InitSession /\ [][NextSession]_vars

-----------------------------------------------------------------------------
(* The upload endpoint (src/api.py)                                        *)

\* The number of upload requests in flight at once.
MaxRequests == 2
Requests == 1..MaxRequests

ALLOWED_EXTENSIONS == { <<"c", "s", "v">> }

\* filename.rsplit('.', 1)[1]: the text after the last dot
Extension(name) ==
    LET dots == {i \in Indices(name) : name[i] = "."}
    IN  SubSeq(name, SetMax(dots) + 1, Len(name))

\* allowed_file(filename)
allowed_file(name) ==
    Occurs(".", name) /\ lower(Extension(name)) \in ALLOWED_EXTENSIONS

\* "_".join(text.split()): the words of the text joined by underscores
RECURSIVE JoinWords(_)
JoinWords(s) ==
    LET t == strip(s)
        gaps == {i \in Indices(t) : IsSpace(t[i])}
    IN  IF gaps = {} THEN t
        ELSE SubSeq(t, 1, SetMin(gaps) - 1) \o <<"_">>
             \o JoinWords(SubSeq(t, SetMin(gaps) + 1, Len(t)))

\* werkzeug's secure_filename: path separators become spaces, the words are
\* joined by "_", characters outside [A-Za-z0-9_.-] are removed, and leading
\* and trailing dots and underscores are stripped.
secure_filename(name) ==
    LET spaced == [i \in Indices(name) |-> IF name[i] = "/" THEN " " ELSE name[i]]
        joined == JoinWords(spaced)
        Safe(c) == Occurs(c, Digits) \/ Occurs(c, UpperCase) \/ Occurs(c, LowerCase)
                   \/ c \in {"_", ".", "-"}
        kept   == SelectSeq(joined, Safe)
        core   == {i \in Indices(kept) : kept[i] \notin {".", "_"}}
    IN  IF core = {} THEN <<>> ELSE SubSeq(kept, SetMin(core), SetMax(core))

\* The file names the clients send, and the file parts they send.
a_csv == <<"a", ".", "c", "s", "v">>
UploadNames ==
    { a_csv,
      <<"b", " ", "1", ".", "C", "S", "V">>,
      <<"b", "_", "1", ".", "c", "s", "v">>,
      <<"n", "o", "t", "e", "s", ".", "t", "x", "t">>,
      <<>> }

UploadBodies ==
    { Csv(WithIds(<<BaseRow>>, FALSE)),
      Csv(WithIds(<<RawRow(Chicago, Feb03, <<"4", "0">>, false, true), BaseRow>>, FALSE)),
      Csv(WithIds(<<BaseRow>>, TRUE)),
      [kind |-> "corrupt", rows |-> <<>>] }

\* What is left on disk of a file whose writing failed part-way.
Truncated == [kind |-> "corrupt", rows |-> <<>>]
NoFile == [kind |-> "missing", rows |-> <<>>]

Idle ==
    [pc |-> "idle", op |-> "none", filename |-> <<>>, body |-> NoFile,
     temp_path |-> <<>>, wrote |-> FALSE, status |-> 0, response |-> Ok(<<>>)]

Write(path, bytes) ==
    [p \in DOMAIN fs \cup {path} |-> IF p = path THEN bytes ELSE fs[p]]
Unlink(path) == [p \in DOMAIN fs \ {path} |-> fs[p]]
Exists(path) == path \in DOMAIN fs
ReadFile(path) == IF Exists(path) THEN fs[path] ELSE NoFile

Respond(r, code, payload) ==
    req' = [req EXCEPT ![r].pc = "done", ![r].op = IF @ = "none" THEN "upload" ELSE @,
                       ![r].status = code, ![r].response = payload]

PipelineIdle == UNCHANGED <<source, build_observed, call, ret, ran, table, results>>

\* Lines 96-108: the request is refused with 400 when it has no file part,
\* an empty file name or a file name that is not *.csv.
Refuse(r) ==
    /\ req[r].pc = "idle"
    /\ \E has_file \in BOOLEAN, name \in UploadNames :
          /\ ~has_file \/ name = <<>> \/ ~allowed_file(name)
          /\ Respond(r, 400,
                 Raise(IF ~has_file THEN "No file uploaded"
                       ELSE IF name = <<>> THEN "No file selected"
                       ELSE "Invalid file type. Only CSV files are allowed."))
    /\ UNCHANGED fs
    /\ PipelineIdle

\* Lines 96-112: the request passes the checks; temp_path is the upload
\* folder joined with the secured file name.
Accept(r) ==
    /\ req[r].pc = "idle"
    /\ \E name \in UploadNames, bytes \in UploadBodies :
          /\ name # <<>> /\ allowed_file(name)
          /\ req' = [req EXCEPT ![r].pc = "save",
                                ![r].op = "upload",
                                ![r].filename = secure_filename(name),
                                ![r].temp_path = secure_filename(name),
                                ![r].body = bytes]
    /\ UNCHANGED fs
    /\ PipelineIdle

\* Line 113, file.save(temp_path), writes the whole file.
Save(r) ==
    /\ req[r].pc = "save"
    /\ fs' = Write(req[r].temp_path, req[r].body)
    /\ req' = [req EXCEPT ![r].pc = "process", ![r].wrote = TRUE]
    /\ PipelineIdle

\* Line 113, file.save(temp_path), fails after it opened the file (the disk
\* is full, the client went away): the exception leaves the outer try by
\* its except clause, lines 151-153.
SaveFails(r) ==
    /\ req[r].pc = "save"
    /\ fs' = Write(req[r].temp_path, Truncated)
    /\ req' = [req EXCEPT ![r].pc = "done", ![r].wrote = TRUE, ![r].status = 500,
                          ![r].response = Raise("Upload failed")]
    /\ PipelineIdle

\* Lines 117-143: load_data reads the temporary file, the summary is
\* computed and the response built; an exception of any of them is answered
\* with 400 by the inner except clause. jsonify(stats) may raise.
Process(r) ==
    /\ req[r].pc = "process"
    /\ \E jsonify_raises \in BOOLEAN :
        \E loaded \in {load_data(ReadFile(req[r].temp_path))} :
          \E stats \in {IF loaded.ok THEN calculate_summary_statistics(loaded.val)
                        ELSE loaded} :
            req' = [req EXCEPT
                      ![r].pc = "finally",
                      ![r].status = IF stats.ok /\ ~jsonify_raises THEN 200 ELSE 400,
                      ![r].response =
                          IF ~stats.ok THEN stats
                          ELSE IF jsonify_raises THEN Raise("TypeError")
                          ELSE Ok([stats |-> stats.val,
                                   file_info |->
                                     [filename      |-> req[r].filename,
                                      total_records |-> Len(loaded.val.rows),
                                      status        |-> "success"]])]
    /\ UNCHANGED fs
    /\ PipelineIdle

\* Line 147, os.path.exists(temp_path), in the finally clause.
CheckExists(r) ==
    /\ req[r].pc = "finally"
    /\ req' = [req EXCEPT ![r].pc = IF Exists(req[r].temp_path) THEN "remove" ELSE "done"]
    /\ UNCHANGED fs
    /\ PipelineIdle

\* Line 148, os.remove(temp_path); it raises when the file is gone by now,
\* and the outer except clause answers 500.
Remove(r) ==
    /\ req[r].pc = "remove"
    /\ IF Exists(req[r].temp_path)
       THEN /\ fs' = Unlink(req[r].temp_path)
            /\ req' = [req EXCEPT ![r].pc = "done"]
       ELSE /\ fs' = fs
            /\ Respond(r, 500, Raise("Upload failed"))
    /\ PipelineIdle

\* GET /api/summary: the summary of the default data file; every exception
\* is answered with 500 and its text (lines 169-181).
GetSummary(r) ==
    /\ req[r].pc = "idle"
    /\ \E jsonify_raises \in BOOLEAN :
        \E loaded \in {load_data(source)} :
          \E stats \in {IF loaded.ok THEN calculate_summary_statistics(loaded.val)
                        ELSE loaded} :
            req' = [req EXCEPT
                      ![r].pc = "done",
                      ![r].op = "summary",
                      ![r].status = IF stats.ok /\ ~jsonify_raises THEN 200 ELSE 500,
                      ![r].response =
                          IF ~stats.ok THEN stats
                          ELSE IF jsonify_raises THEN Raise("TypeError")
                          ELSE Ok([stats |-> stats.val,
                                   data_source   |-> "default_file",
                                   total_records |-> Len(loaded.val.rows)])]
    /\ UNCHANGED fs
    /\ PipelineIdle

\* The default data file of the server: absent, or a file of one row.
DefaultFiles == {NoFile, Csv(WithIds(<<BaseRow>>, FALSE))}

InitUpload ==
    /\ source \in DefaultFiles
    /\ build_observed = FALSE
    /\ call = "none"
    /\ ret = Ok(<<>>)
    /\ ran = <<>>
    /\ fs = <<>>
    /\ req = [r \in Requests |-> Idle]
    /\ table = NotLoaded
    /\ results = <<>>

NextUpload ==
    \E r \in Requests :
        \/ Refuse(r)
        \/ Accept(r)
        \/ Save(r)
        \/ SaveFails(r)
        \/ Process(r)
        \/ CheckExists(r)
        \/ Remove(r)
        \/ GetSummary(r)

SpecUpload == InitUpload /\ [][NextUpload]_vars

-----------------------------------------------------------------------------
(* Properties                                                              *)

IsCsv == source.kind = "csv"
NRaw == Len(source.rows)
RawCell(i, c) == source.rows[i][c]
LabelSet == {labels[i] : i \in Indices(labels)}

\* The table the call in progress got from load_data.
Cleaned == load_data(source)
CleanedRows == Cleaned.val.rows
HasCleaned == call \in {"load_data", "get_all_analytics"} \/ Occurs(call, Sections)

RECURSIVE SumField(_, _)
SumField(seq, f) == IF seq = <<>> THEN 0 ELSE seq[1][f] + SumField(Tail(seq), f)

\* A rate is the undefined sentinel or a percentage in [0, 100] (in tenths).
IsRate(x) == x.nan \/ (0 <= x.v /\ x.v <= 1000)

\* x is count / n as a percentage rounded to the nearest tenth.
IsPercentage(x, count, n) ==
    IF n = 0 THEN x.nan
    ELSE ~x.nan /\ 2 * (n * x.v - 1000 * count) <= n
                /\ 2 * (1000 * count - n * x.v) <= n

\* C1: every record of the table load_data returns has age in (0, 100],
\* enrollment_month in 1..12, boolean adverse_event and completed_trial, and
\* one of the four labels as age_group.
C1_CleanedRecordsInRange ==
    (call = "load_data" /\ ret.ok) =>
        \A i \in Indices(ret.val.rows) :
            LET r == ret.val.rows[i]
            IN  /\ ~r.age.nan /\ 0 < r.age.v /\ r.age.v <= 1000
                /\ r.enrollment_month \in 1..12
                /\ r.adverse_event \in BOOLEAN
                /\ r.completed_trial \in BOOLEAN
                /\ r.age_group \in LabelSet

\* C2: the per-site total_patients, the per-age-group counts and the
\* per-month enrollments each add up to the number of cleaned records.
C2_GroupCountsAddUp ==
    /\ (call = "site_performance" /\ ret.ok) =>
            SumField(ret.val, "total_patients") = Len(CleanedRows)
    /\ (call = "age_group_analysis" /\ ret.ok) =>
            SumField(ret.val, "count") = Len(CleanedRows)
    /\ (call = "temporal_analysis" /\ ret.ok) =>
            SumField(ret.val, "enrollments") = Len(CleanedRows)
    /\ (call = "get_all_analytics" /\ ret.ok) =>
            LET n == ret.val.summary_statistics.total_patients
            IN  /\ n = Len(CleanedRows)
                /\ SumField(ret.val.site_performance, "total_patients") = n
                /\ SumField(ret.val.age_group_analysis, "count") = n
                /\ SumField(ret.val.temporal_analysis, "enrollments") = n

SummaryRatesOk(v) ==
    /\ IsRate(v.completion_rate)
    /\ IsRate(v.adverse_event_rate)
    /\ IsRate(v.completion_rate_with_ae)
    /\ IsRate(v.completion_rate_without_ae)
GroupRatesOk(seq) ==
    \A i \in Indices(seq) : IsRate(seq[i].completion_rate) /\ IsRate(seq[i].ae_rate)

\* C3: every rate the four aggregators return is a number in [0, 100] or
\* the undefined sentinel.
C3_RatesInRange ==
    /\ (call = "summary_statistics" /\ ret.ok) => SummaryRatesOk(ret.val)
    /\ (call \in {"site_performance", "age_group_analysis", "temporal_analysis"}
        /\ ret.ok) => GroupRatesOk(ret.val)
    /\ (call = "get_all_analytics" /\ ret.ok) =>
            /\ SummaryRatesOk(ret.val.summary_statistics)
            /\ GroupRatesOk(ret.val.site_performance)
            /\ GroupRatesOk(ret.val.age_group_analysis)
            /\ GroupRatesOk(ret.val.temporal_analysis)

\* A summary with an undefined stratified rate beside rates of 50% and 100%.
C3_Witness ==
    /\ call = "summary_statistics" /\ ret.ok
    /\ ret.val.completion_rate = Num(500)
    /\ ret.val.completion_rate_with_ae = NaN
    /\ ret.val.adverse_event_rate = Num(0)

\* A cell is valid when the reader and the conversions keep it.
ValidCell(c, t) ==
    /\ t \notin NA_VALUES \cup NullMarkers
    /\ c = "enrollment_date" => ~to_datetime(t).nat
    /\ c = "age" => ~to_numeric(t).nan
MarkersOrValid ==
    \A i \in 1..NRaw : \A c \in ColumnSet :
        RawCell(i, c) \in NullMarkers \/ ValidCell(c, RawCell(i, c))
AllMarkers(c) == \A i \in 1..NRaw : RawCell(i, c) \in NullMarkers
MarkerColumns == {c \in ColumnSet : AllMarkers(c)}
RowsWithoutMarker ==
    {i - 1 : i \in {j \in 1..NRaw :
                      \A c \in ColumnSet \ MarkerColumns : RawCell(j, c) \notin NullMarkers}}
RowIds(rows) == {rows[i].idx : i \in Indices(rows)}

\* C4: the column drop comes before the row drop. On a table of markers
\* and valid values, a column holding only markers is removed and costs no
\* row; of the other columns exactly the rows holding a marker are dropped.
\* (When the removed column is one load_data converts, the call raises.)
C4_ColumnDropBeforeRowDrop ==
    (call = "load_data" /\ IsCsv /\ NRaw > 0 /\ MarkersOrValid) =>
        IF MarkerColumns \cap {Converted4[k] : k \in Indices(Converted4)} # {}
        THEN ~ret.ok
        ELSE /\ ret.ok
             /\ ret.val.cols \cap ColumnSet = ColumnSet \ MarkerColumns
             /\ RowIds(ret.val.rows) = RowsWithoutMarker

\* Both branches at once: patient_id holds only markers and is removed,
\* trial_site mixes a marker with a value and costs exactly that row.
C4_Witness ==
    /\ call = "load_data" /\ IsCsv /\ NRaw = 2 /\ MarkersOrValid /\ ret.ok
    /\ MarkerColumns = {"patient_id"}
    /\ RawCell(1, "trial_site") \in NullMarkers
    /\ "patient_id" \notin ret.val.cols
    /\ RowIds(ret.val.rows) = {1}

Fixture ==
    Csv(WithIds(<< RawRow(Boston, Jan15, <<"2", "5">>, false, true),
                   RawRow(Boston, Feb03, <<"6", "5">>, true, false),
                   RawRow(Chicago, Jan15, <<"4", "0">>, false, true) >>, FALSE))

CountIn(rows, P(_)) == Cardinality({i \in Indices(rows) : P(rows[i])})

\* C5: on the three-row fixture the summary is total_patients = 3,
\* completion_rate = 66.7, adverse_event_rate = 33.3, completion_rate_with_ae
\* = 0.0 and completion_rate_without_ae = 100.0; and every summary rate is
\* 100 * (count of true) / (rows of the set or stratum) to one decimal.
C5_SummaryRates ==
    (call = "summary_statistics" /\ ret.ok) =>
      \A rows \in {CleanedRows} :
        /\ source = Fixture =>
              /\ ret.val.total_patients = 3
              /\ ret.val.completion_rate = Num(667)
              /\ ret.val.adverse_event_rate = Num(333)
              /\ ret.val.completion_rate_with_ae = Num(0)
              /\ ret.val.completion_rate_without_ae = Num(1000)
        /\ ret.val.total_patients = Len(rows)
        /\ IsPercentage(ret.val.completion_rate,
                        CountIn(rows, LAMBDA r : r.completed_trial), Len(rows))
        /\ IsPercentage(ret.val.adverse_event_rate,
                        CountIn(rows, LAMBDA r : r.adverse_event), Len(rows))
        /\ IsPercentage(ret.val.completion_rate_with_ae,
                        CountIn(rows, LAMBDA r : r.adverse_event /\ r.completed_trial),
                        CountIn(rows, LAMBDA r : r.adverse_event))
        /\ IsPercentage(ret.val.completion_rate_without_ae,
                        CountIn(rows, LAMBDA r : ~r.adverse_event /\ r.completed_trial),
                        CountIn(rows, LAMBDA r : ~r.adverse_event))

C5_Witness ==
    /\ source = Fixture
    /\ call = "summary_statistics" /\ ret.ok
    /\ ret.val.completion_rate = Num(667)
    /\ ret.val.completion_rate_without_ae = Num(1000)

\* A row fails a conversion when its age is no number or its date no date
\* (a text that is present, not a missing marker).
ValidRow(i) == \A c \in ColumnSet : ValidCell(c, RawCell(i, c))
FailsConversion(i) ==
    /\ \A c \in ColumnSet \ {"age", "enrollment_date"} : ValidCell(c, RawCell(i, c))
    /\ RawCell(i, "age") \notin NA_VALUES \cup NullMarkers
    /\ RawCell(i, "enrollment_date") \notin NA_VALUES \cup NullMarkers
    /\ ~ValidRow(i)
ValidIds == {i - 1 : i \in {j \in 1..NRaw : ValidRow(j)}}

\* C6: with rows of a non-numeric age or an unparseable date among valid
\* rows, load_data returns, exactly those rows are absent, every other row
\* is kept, and total_patients counts the kept rows only.
C6_BadRowsDropped ==
    (IsCsv /\ NRaw > 0 /\ \A i \in 1..NRaw : ValidRow(i) \/ FailsConversion(i)) =>
        /\ call = "load_data" => (ret.ok /\ RowIds(ret.val.rows) = ValidIds)
        /\ call = "summary_statistics" =>
              (ret.ok /\ ret.val.total_patients = Cardinality(ValidIds))

\* The row with age "abc" is gone, the valid row after it is kept.
C6_Witness ==
    /\ IsCsv /\ NRaw = 2 /\ call = "load_data" /\ ret.ok
    /\ RawCell(1, "age") = <<"a", "b", "c">>
    /\ ValidRow(2)
    /\ RowIds(ret.val.rows) = {1}

\* C7: when cleaning drops a required column, the call fails with a
\* SchemaInvalid failure (and not with a KeyError, nor does it return).
C7_SchemaInvalidRaised ==
    (IsCsv /\ NRaw > 0 /\ MarkerColumns # {} /\ HasCleaned
     /\ call \in {"load_data", "get_all_analytics"}) =>
        (~ret.ok /\ ret.err = "SchemaInvalid")

EmptyCleaned == Cleaned.ok /\ CleanedRows = <<>>

\* C8: on a cleaned table without records every aggregator and the insight
\* deriver return, every summary rate being the sentinel, and
\* get_all_analytics returns the composite result.
C8_EmptyTableHandled ==
    (HasCleaned /\ call # "load_data" /\ EmptyCleaned) =>
        /\ ret.ok
        /\ call = "summary_statistics" =>
              /\ ret.val.completion_rate.nan
              /\ ret.val.adverse_event_rate.nan
              /\ ret.val.completion_rate_with_ae.nan
              /\ ret.val.completion_rate_without_ae.nan

\* C9: when load_data fails, get_all_analytics enters no other function,
\* returns nothing, and raises the failure load_data raised (for a missing
\* or unparseable source: the reader's own failure).
C9_LoadFailurePropagates ==
    (call = "get_all_analytics" /\ ~Cleaned.ok) =>
        /\ ~ret.ok
        /\ ret.err = Cleaned.err
        /\ ~IsCsv => ret.err = read_csv(source).err
        /\ ran = <<"load_data">>

C9_Witness ==
    /\ call = "get_all_analytics"
    /\ source.kind = "missing"
    /\ ~ret.ok /\ ret.err = "FileNotFoundError"
    /\ ran = <<"load_data">>

\* C10: whenever a request that began writing its temporary file has
\* returned, and no other request is using that path, the file is gone.
C10_TempFileRemoved ==
    \A r \in Requests :
        (/\ req[r].pc = "done"
         /\ req[r].wrote
         /\ \A q \in Requests \ {r} :
               req[q].pc \in {"idle", "done"} \/ req[q].temp_path # req[r].temp_path)
        => ~Exists(req[r].temp_path)


\* The position in the cleaned table of the first record of a site.
FirstSeen(site) ==
    SetMin({i \in Indices(CleanedRows) : CleanedRows[i].trial_site = site})

\* C11: site_performance_analysis returns the sites by completion rate,
\* highest first, and two sites of equal rate in the order in which their
\* labels first appear in the cleaned table.
C11_SitesByRateThenFirstSeen ==
    (call = "site_performance" /\ ret.ok) =>
        \A i, j \in Indices(ret.val) :
            i < j =>
                \/ ret.val[i].completion_rate.v > ret.val[j].completion_rate.v
                \/ /\ ret.val[i].completion_rate.v = ret.val[j].completion_rate.v
                   /\ FirstSeen(ret.val[i].site) < FirstSeen(ret.val[j].site)


\* What load_data returns on the source of the session, read afresh.
Fresh == load_data(source)
Alone(name) == section(name, Fresh.val, build_observed)
Kept(name) == name \in DOMAIN results

C14_AggregatorsLeaveTable ==
    /\ table.ok => table = Fresh
    /\ \A k \in Indices(Sections) :
          Kept(Sections[k]) => results[Sections[k]] = Alone(Sections[k])
    /\ Kept("composite") =>
          /\ Cardinality({i \in Indices(ran) : ran[i] = "load_data"}) = 1
          /\ ran[1] = "load_data"
          /\ results["composite"].ok =>
                \A k \in Indices(Sections) :
                    results["composite"].val[Sections[k]] = Alone(Sections[k]).val
          /\ (Fresh.ok /\ ~results["composite"].ok) =>
                \E k \in Indices(Sections) : results["composite"] = Alone(Sections[k])

\* All six functions ran on the shared table, which holds a record without
\* an age group, and the composite was produced.
C14_Witness ==
    /\ table.ok
    /\ \A k \in Indices(Sections) : Kept(Sections[k])
    /\ Kept("composite") /\ results["composite"].ok
    /\ \E i \in Indices(table.val.rows) : table.val.rows[i].age_group = NoLabel
    /\ results["composite"].val.summary_statistics.total_patients = 2


\* best_site and worst_site are the first and the last entry of sp.
SitesByPosition(ki, sp) ==
    /\ sp # <<>>
    /\ ki.best_site.name = sp[1].site
    /\ ki.best_site.completion_rate = sp[1].completion_rate
    /\ ki.worst_site.name = sp[Len(sp)].site
    /\ ki.worst_site.completion_rate = sp[Len(sp)].completion_rate
    /\ \A k \in Indices(sp) :
          /\ sp[k].completion_rate.v <= ki.best_site.completion_rate.v
          /\ ki.worst_site.completion_rate.v <= sp[k].completion_rate.v
    /\ Len(sp) = 1 => ki.best_site.name = ki.worst_site.name

\* C15: for every cleaned table with at least one record the composite
\* result is produced, and its key_insights name as best_site the first and
\* as worst_site the last entry of its site_performance section, whose rates
\* bound the rate of every site.
C15_BestWorstSiteByPosition ==
    (call = "get_all_analytics" /\ Cleaned.ok /\ CleanedRows # <<>>) =>
        /\ ret.ok
        /\ SitesByPosition(ret.val.key_insights, ret.val.site_performance)

\* The records of an age group, and the labels that have records.
Members(l) == Group(CleanedRows, "age_group", l)
Populated == {k \in Indices(labels) : Members(labels[k]) # <<>>}
GroupRate(k) == pct_round3(Members(labels[k]), "completed_trial")

\* C16: on a cleaned table with records get_key_insights returns, and names
\* as best (worst) age group the first label, in the order of the labels,
\* among the populated ones of the highest (lowest) completion rate; a label
\* without records never wins.
C16_BestWorstAgeGroup ==
    (call = "key_insights" /\ CleanedRows # <<>>) =>
        /\ ret.ok
        /\ \E b, w \in Populated :
              /\ ret.val.best_age_group.name = labels[b]
              /\ ret.val.best_age_group.completion_rate = GroupRate(b)
              /\ \A k \in Populated :
                    /\ GroupRate(k).v <= GroupRate(b).v
                    /\ GroupRate(k).v = GroupRate(b).v => b <= k
              /\ ret.val.worst_age_group.name = labels[w]
              /\ ret.val.worst_age_group.completion_rate = GroupRate(w)
              /\ \A k \in Populated :
                    /\ GroupRate(w).v <= GroupRate(k).v
                    /\ GroupRate(k).v = GroupRate(w).v => w <= k


\* The boolean the spec gives a raw text: lower-cased and trimmed, it is one
\* of "true", "1", "yes".
RawTrue(t) == strip(lower(t)) \in TrueTexts

\* C17: every record load_data returns has adverse_event and completed_trial
\* true exactly when the raw text of its row is, lower-cased and trimmed,
\* "true", "1" or "yes"; and a row whose cells are all present and valid,
\* whatever its boolean texts, is returned.
C17_BooleansNormalized ==
    (call = "load_data" /\ IsCsv) =>
        /\ ret.ok =>
              \A k \in Indices(ret.val.rows) :
                  LET r == ret.val.rows[k]
                  IN  /\ r.adverse_event = RawTrue(RawCell(r.idx + 1, "adverse_event"))
                      /\ r.completed_trial = RawTrue(RawCell(r.idx + 1, "completed_trial"))
        /\ \A i \in 1..NRaw :
              ValidRow(i) => (ret.ok /\ (i - 1) \in RowIds(ret.val.rows))


\* The label of the half-open bin an age (in tenths of a year) lies in.
BinLabel(v) ==
    IF 0 < v /\ v <= 300 THEN "18-30"
    ELSE IF 300 < v /\ v <= 500 THEN "31-50"
    ELSE IF 500 < v /\ v <= 700 THEN "51-70"
    ELSE "71-80"

OverallComputed(v, rows) ==
    /\ v.total_patients = Len(rows)
    /\ IsPercentage(v.completion_rate,
                    CountIn(rows, LAMBDA r : r.completed_trial), Len(rows))
    /\ IsPercentage(v.adverse_event_rate,
                    CountIn(rows, LAMBDA r : r.adverse_event), Len(rows))

\* C19: when no cleaned record has adverse_event true (false),
\* calculate_summary_statistics returns, completion_rate_with_ae
\* (completion_rate_without_ae) is the sentinel and no number, and the
\* overall fields and the rate of the other stratum are computed as ever.
C19_EmptyStratumSentinel ==
    (call = "summary_statistics") =>
      \A rows \in {CleanedRows} :
        /\ CountIn(rows, LAMBDA r : r.adverse_event) = 0 =>
              /\ ret.ok
              /\ ret.val.completion_rate_with_ae = NaN
              /\ ret.val.completion_rate_with_ae # Num(0)
              /\ OverallComputed(ret.val, rows)
              /\ IsPercentage(ret.val.completion_rate_without_ae,
                              CountIn(rows, LAMBDA r : r.completed_trial), Len(rows))
        /\ CountIn(rows, LAMBDA r : ~r.adverse_event) = 0 =>
              /\ ret.ok
              /\ ret.val.completion_rate_without_ae = NaN
              /\ ret.val.completion_rate_without_ae # Num(0)
              /\ OverallComputed(ret.val, rows)
              /\ IsPercentage(ret.val.completion_rate_with_ae,
                              CountIn(rows, LAMBDA r : r.completed_trial), Len(rows))

\* No record with an adverse event: that stratum's rate is the sentinel
\* while the other stratum has the valid rate 0.0.
C19_Witness ==
    /\ call = "summary_statistics" /\ ret.ok
    /\ ret.val.total_patients = 1
    /\ ret.val.completion_rate_with_ae = NaN
    /\ ret.val.completion_rate_without_ae = Num(0)
    /\ ret.val.adverse_event_rate = Num(0)


\* What the pipeline makes of the bytes a request uploaded.
OwnOutcome(r) ==
    LET loaded == load_data(req[r].body)
    IN  IF loaded.ok THEN calculate_summary_statistics(loaded.val) ELSE loaded

\* The request was refused for its form, or its file is no CSV the pipeline
\* can process.
Refused(r) == req[r].op = "upload" /\ req[r].pc = "done" /\ req[r].temp_path = <<>>
BadInput(r) == req[r].op = "upload" /\ (Refused(r) \/ ~OwnOutcome(r).ok)

\* C12: a request is answered with a client error exactly when its input is
\* malformed or missing: a 4xx answer goes to bad input only, a refused
\* request gets 400, a 200 answer goes to good input, and a 5xx answer
\* carries the text of the failure.
C12_StatusByCause ==
    \A r \in Requests :
        req[r].pc = "done" =>
            /\ req[r].status \in 400..499 => BadInput(r)
            /\ Refused(r) => req[r].status = 400
            /\ req[r].status = 200 => (~BadInput(r) /\ req[r].response.ok)
            /\ req[r].status >= 500 => (~req[r].response.ok /\ req[r].response.err # "")

\* C20: from the moment a request saved its file until its load_data read
\* it, the file exists and holds the bytes of that request, and the response
\* is computed from those bytes, whatever other requests do meanwhile.
C20_UploadsIsolated ==
    \A r \in Requests :
        /\ req[r].pc = "process" =>
              (Exists(req[r].temp_path) /\ fs[req[r].temp_path] = req[r].body)
        /\ req[r].pc = "finally" =>
              IF OwnOutcome(r).ok
              THEN \/ req[r].response.ok /\ req[r].response.val.stats = OwnOutcome(r).val
                   \/ req[r].response = Raise("TypeError")
              ELSE req[r].response = OwnOutcome(r)

=============================================================================
